---- MODULE Spec2Model ----
(***************************************************************************)
(* Workflow simulator: the job queue (js/asyncQueue.js), the workflow      *)
(* engine and the storage wrapper (js/stateMachine.js) and the caller      *)
(* that drives them (js/app.js).                                           *)
(*                                                                         *)
(* JavaScript runs one macrotask at a time and drains the microtask queue  *)
(* after it, so one action of this model is one macrotask (a click, a      *)
(* timer callback) together with every promise continuation it triggers,   *)
(* up to the next setTimeout that suspends it.  The suspension points are  *)
(* the setTimeout of transitionTaskAsync and the _delay of load and save.  *)
(*                                                                         *)
(* Not modelled: task title and createdAt, the search box (of the two      *)
(* filters of renderBoard the priority filter is modelled), the column a   *)
(* card sits in, the error log, and the timestamp of a history record.     *)
(***************************************************************************)
EXTENDS Naturals, Sequences, FiniteSets

\* ---------------------------------------------------------------- bounds
\* tasks the user creates in one session
MaxTasks == 1
\* jobs enqueued in one session
MaxJobs == 4
\* jobs enqueued in a session in which scripts also call the engine directly
MaxOpenJobs == 3
\* direct calls (bypassing the queue) in a session of SpecOpen or SpecEngine
MaxDirect == 1
\* direct calls in a session of SpecStore
MaxStoreDirect == 2
\* direct calls in a session of SpecRace
MaxRaceDirect == 3
\* jobs enqueued in a session of SpecLive
MaxLiveJobs == 3

\* ---------------------------------------------------------- state machine
States == {"DRAFT", "SUBMITTED", "IN_REVIEW", "APPROVED", "COMPLETED", "REJECTED"}

\* a state name that is no key of the table
UnknownStates == {"ARCHIVED"}

STATE_RULES ==
    [s \in States |->
        CASE s = "DRAFT"     -> <<"SUBMITTED">>
          [] s = "SUBMITTED" -> <<"IN_REVIEW">>
          [] s = "IN_REVIEW" -> <<"APPROVED", "REJECTED">>
          [] s = "APPROVED"  -> <<"COMPLETED">>
          [] s = "COMPLETED" -> <<>>
          [] s = "REJECTED"  -> <<"DRAFT">>]

Range(f) == {f[i] : i \in DOMAIN f}

\* allowed && allowed.includes(targetState)
canTransition(currentParams, targetState) ==
    /\ currentParams \in DOMAIN STATE_RULES
    /\ targetState \in Range(STATE_RULES[currentParams])

\* getNextStates falling back to the restart edge for a state without entry
getNextStatesRestart(currentState) ==
    IF currentState \in DOMAIN STATE_RULES THEN STATE_RULES[currentState]
    ELSE <<"DRAFT">>

\* STATE_RULES[currentState] || []
getNextStates(currentState) ==
    IF currentState \in DOMAIN STATE_RULES THEN STATE_RULES[currentState] ELSE <<>>

\* the action string of a history record: `MOVED_TO_${targetState}`
MovedTo(targetState) == "MOVED_TO_" \o targetState

\* ------------------------------------------------------------------ tasks
Priorities == {"LOW", "HIGH"}

\* the object literal of saveBtn.onclick
NewTask(id, priority) ==
    [id |-> id, priority |-> priority, state |-> "DRAFT", history |-> <<>>]

\* What localStorage can hold when the page loads: nothing, or the blob a
\* previous session saved.
StoredTask1 == [id |-> 1, priority |-> "LOW", state |-> "IN_REVIEW",
                history |-> <<MovedTo("SUBMITTED"), MovedTo("IN_REVIEW")>>]

NoBlob == [present |-> FALSE, tasks |-> <<>>]

InitialBlobs == {NoBlob, [present |-> TRUE, tasks |-> <<StoredTask1>>]}

\* a second task of an earlier session, created and not moved yet
StoredTask2 == [id |-> 2, priority |-> "HIGH", state |-> "DRAFT", history |-> <<>>]

\* ids a task can have: the stored ones and the ones created in this session
Ids == 1 .. (1 + MaxTasks + 1)

\* ------------------------------------------------------------------ state
VARIABLES
    queue,          \* AsyncQueue.queue: the jobs waiting
    isProcessing,   \* AsyncQueue.isProcessing
    running,        \* jobs whose fn() was called and has not settled yet
    lockedTasks,    \* WorkflowEngine.lockedTasks
    timers,         \* pending setTimeout callbacks of transitionTaskAsync
    blob,           \* localStorage[dbKey]
    dbCalls,        \* AppStorage calls suspended in _delay
    heap,           \* the task objects; a reference is an index
    allTasks,       \* app.js allTasks: references
    cards,          \* the card of each task id in the DOM
    priorityFilter, \* value of the priority <select>
    renderTimers,   \* pending setTimeout(renderBoard) of revertCardVisuals
    now,            \* Date.now(): the id the next created task gets
    nextTicket,     \* number of enqueue calls so far, plus one
    executionOrder, \* tickets of the jobs in the order their fn() was called
    directCalls,    \* number of calls made directly on engine and store
    lockErrors,     \* number of units whose transitionTaskAsync was rejected as locked
    last            \* what the last macrotask did

vars == <<queue, isProcessing, running, lockedTasks, timers, blob, dbCalls,
          heap, allTasks, cards, priorityFilter, renderTimers,
          now, nextTicket, executionOrder, directCalls, lockErrors, last>>

NoCard == [present |-> FALSE, buttons |-> <<>>, disabled |-> FALSE]

\* The part of the state the queue, the engine and the store work on, as one
\* value: processNext calls itself, so its effect is computed by a recursive
\* operator.  h, b and c are the task objects, the blob and the cards as the
\* handler has left them; of these only the task objects are written back.
Mid(h, b, c) ==
    [queue |-> queue, isProcessing |-> isProcessing, running |-> running,
     lockedTasks |-> lockedTasks, timers |-> timers, dbCalls |-> dbCalls,
     renderTimers |-> renderTimers, executionOrder |-> executionOrder,
     lockErrors |-> lockErrors, heap |-> h, blob |-> b, cards |-> c]

SetMid(s) ==
    /\ queue' = s.queue
    /\ isProcessing' = s.isProcessing
    /\ running' = s.running
    /\ lockedTasks' = s.lockedTasks
    /\ timers' = s.timers
    /\ dbCalls' = s.dbCalls
    /\ renderTimers' = s.renderTimers
    /\ executionOrder' = s.executionOrder
    /\ lockErrors' = s.lockErrors
    /\ heap' = s.heap

RemoveAt(seq, i) == SubSeq(seq, 1, i - 1) \o SubSeq(seq, i + 1, Len(seq))


\* ---------------------------------------------------------------- storage
\* findIndex that does not look at the last entry of the list
FindIndexMissesLast(tasks, id) ==
    IF \E i \in 1..(Len(tasks) - 1) : tasks[i].id = id
    THEN CHOOSE i \in 1..(Len(tasks) - 1) :
            /\ tasks[i].id = id
            /\ \A j \in 1..(i-1) : tasks[j].id # id
    ELSE 0

\* JSON.stringify(data) of save: every entry is written as the value the
\* object has at that moment.  data.tasks is the parsed list with the entry
\* at index (0: none, the task was pushed) pointing at the live object ref.
FindIndex(tasks, id) ==
    IF \E i \in 1..Len(tasks) : tasks[i].id = id
    THEN CHOOSE i \in 1..Len(tasks) :
            /\ tasks[i].id = id
            /\ \A j \in 1..(i-1) : tasks[j].id # id
    ELSE 0


\* JSON.parse(raw) of load, or the default { tasks: [], logs: [] }
Parse(raw) == IF raw.present THEN raw.tasks ELSE <<>>

\* data.tasks with the task always pushed
StringifyPush(tasks, index, obj) ==
    [present |-> TRUE, tasks |-> Append(tasks, obj)]

\* a save that puts the task into the list persisted at that moment instead of
\* the list its caller loaded
StringifyFresh(tasks, index, obj) ==
    [present |-> TRUE,
     tasks   |-> IF FindIndex(Parse(blob), obj.id) # 0
                 THEN [Parse(blob) EXCEPT ![FindIndex(Parse(blob), obj.id)] = obj]
                 ELSE Append(Parse(blob), obj)]

\* data.tasks as save serializes it: the list load returned, with the entry at
\* index replaced by (index = 0: followed by) the object's value at that time
Stringify(tasks, index, obj) ==
    [present |-> TRUE,
     tasks   |-> IF index # 0 THEN [tasks EXCEPT ![index] = obj]
                 ELSE Append(tasks, obj)]

\* ----------------------------------------------------------------- engine
\* The synchronous part of transitionTaskAsync (the promise's executor): the
\* presence check, the lock and the setTimeout.  A rejected call leaves s as
\* it is.  caller is the ticket of the unit that awaits the promise, 0 for a
\* direct call; pre remembers the task as it was when the call was made.

\* When the macrotask before a direct call was the simulated failure of an
\* attempt on the same task object, the task as it was before that attempt
\* and the target of that attempt; this only records history.
RetryOf(task, caller) ==
    IF caller = 0 /\ last.op = "attempt"
    THEN IF last.outcome = "failed" /\ last.task = task THEN <<[pre |-> last.pre, targetState |-> last.targetState]>>
         ELSE <<>>
    ELSE <<>>

\* what the closure of the setTimeout callback holds
TimerOf(s, task, targetState, caller) ==
    [task |-> task, targetState |-> targetState, caller |-> caller,
     pre |-> s.heap[task], retryOf |-> RetryOf(task, caller)]

\* transitionTaskAsync without the presence check
transitionTaskAsyncNoCheck(s, task, targetState, caller) ==
    [s EXCEPT !.lockedTasks = @ \cup {s.heap[task].id},
              !.timers = Append(@, TimerOf(s, task, targetState, caller))]

\* transitionTaskAsync with task.state assigned before the presence check
transitionTaskAsyncEarlyState(s, task, targetState, caller) ==
    IF s.heap[task].id \in s.lockedTasks
    THEN [s EXCEPT !.heap[task].state = targetState]
    ELSE [s EXCEPT !.heap[task].state = targetState,
                   !.lockedTasks = @ \cup {s.heap[task].id},
                   !.timers = Append(@, TimerOf(s, task, targetState, caller))]

\* transitionTaskAsync rejecting a target that canTransition does not allow
transitionTaskAsyncValidated(s, task, targetState, caller) ==
    IF \/ s.heap[task].id \in s.lockedTasks
       \/ ~canTransition(s.heap[task].state, targetState)
    THEN s
    ELSE [s EXCEPT !.lockedTasks = @ \cup {s.heap[task].id},
                   !.timers = Append(@, TimerOf(s, task, targetState, caller))]

\* transitionTaskAsync with one lock for all tasks
transitionTaskAsyncGlobalLock(s, task, targetState, caller) ==
    IF s.lockedTasks # {}
    THEN s
    ELSE [s EXCEPT !.lockedTasks = @ \cup {s.heap[task].id},
                   !.timers = Append(@, TimerOf(s, task, targetState, caller))]

transitionTaskAsync(s, task, targetState, caller) ==
    IF s.heap[task].id \in s.lockedTasks
    THEN s
    ELSE [s EXCEPT !.lockedTasks = @ \cup {s.heap[task].id},
                   !.timers = Append(@, TimerOf(s, task, targetState, caller))]

\* the success branch with the history record put in front
MovedUnshift(obj, targetState) ==
    [obj EXCEPT !.state = targetState,
                !.history = <<MovedTo(targetState)>> \o @]

\* the success branch of the timer callback, on the task object
Moved(obj, targetState) ==
    [obj EXCEPT !.state = targetState,
                !.history = Append(@, MovedTo(targetState))]

\* ------------------------------------------------------------------ store
\* A store call suspended in _delay.  op is "load" or "updateTask", phase the
\* _delay it waits in; owner is "init", "unit" (with its ticket) or "direct".
\* preTasks (the persisted list when the call was made) and overlapped (some
\* other store call was in flight during this one) only record history.
StartDb(s, call) ==
    IF s.dbCalls = <<>>
    THEN [s EXCEPT !.dbCalls = <<call>>]
    ELSE [s EXCEPT !.dbCalls =
            Append([i \in DOMAIN @ |-> [@[i] EXCEPT !.overlapped = TRUE]],
                   [call EXCEPT !.overlapped = TRUE])]

\* load(): suspends in _delay
load(s, owner) ==
    StartDb(s, [op |-> "load", phase |-> "load", owner |-> owner, ticket |-> 0,
                task |-> 0, data |-> <<>>, index |-> 0,
                preTasks |-> Parse(s.blob), overlapped |-> FALSE])

\* updateTask(updatedTask) up to its first suspension, the _delay of load()
updateTask(s, updatedTask, owner, ticket) ==
    StartDb(s, [op |-> "updateTask", phase |-> "load", owner |-> owner,
                ticket |-> ticket, task |-> updatedTask, data |-> <<>>,
                index |-> 0, preTasks |-> Parse(s.blob), overlapped |-> FALSE])

\* ------------------------------------------------------------------- DOM
\* createTaskElement: one button per next state of the task's state
createTaskElement(obj) ==
    [present |-> TRUE, buttons |-> getNextStates(obj.state), disabled |-> FALSE]

\* renderBoard: the columns are cleared and a card is made for every task of
\* all that passes the priority filter
renderBoard(h, all, filter) ==
    [id \in Ids |->
        IF \E i \in 1..Len(all) :
                /\ h[all[i]].id = id
                /\ (filter = "ALL" \/ h[all[i]].priority = filter)
        THEN createTaskElement(h[all[CHOOSE i \in 1..Len(all) : h[all[i]].id = id]])
        ELSE NoCard]

\* moveCardVisuals: the card's buttons are disabled
moveCardVisuals(c, taskId) ==
    IF c[taskId].present THEN [c EXCEPT ![taskId].disabled = TRUE] ELSE c

\* revertCardVisuals: when the card exists, setTimeout(() => renderBoard(), 1000)
revertCardVisuals(s, taskId) ==
    IF s.cards[taskId].present THEN [s EXCEPT !.renderTimers = @ + 1] ELSE s

\* ------------------------------------------------------------------ queue
\* A job: kind "move" (the unit of handleMove) or "create" (the unit of
\* saveBtn.onclick), the task object it closes over, and for a move taskId,
\* targetState and previousState.  ticket numbers the enqueue calls.
WithoutTicket(seq, ticket) ==
    IF \E i \in 1..Len(seq) : seq[i].ticket = ticket
    THEN RemoveAt(seq, CHOOSE i \in 1..Len(seq) : seq[i].ticket = ticket)
    ELSE seq

RECURSIVE processNext(_)

\* the finally block without the call of processNext
FinallyNoRestart(s, job) ==
    [s EXCEPT !.isProcessing = FALSE,
              !.running = WithoutTicket(@, job.ticket)]

\* the finally block of processNext, once job.fn() has settled
Finally(s, job) ==
    processNext([s EXCEPT !.isProcessing = FALSE,
                          !.running = WithoutTicket(@, job.ticket)])

\* job.fn() with the unit of a create not awaiting updateTask: the unit is
\* over as soon as the store call has been made
RunJobNoAwait(s, job) ==
    IF job.kind = "move"
    THEN LET r == transitionTaskAsync(s, job.task, job.targetState, job.ticket)
         IN  IF r.timers = s.timers
             THEN Finally(revertCardVisuals([r EXCEPT !.lockErrors = @ + 1],
                                            job.taskId), job)
             ELSE r
    ELSE Finally(updateTask(s, job.task, "direct", 0), job)

\* job.fn() with the unit of a move not awaiting transitionTaskAsync: the unit
\* is over as soon as the attempt has been started
RunJobNoAwaitMove(s, job) ==
    IF job.kind = "move"
    THEN LET r == transitionTaskAsync(s, job.task, job.targetState, 0)
         IN  IF r.timers = s.timers
             THEN Finally(revertCardVisuals([r EXCEPT !.lockErrors = @ + 1],
                                            job.taskId), job)
             ELSE Finally(r, job)
    ELSE updateTask(s, job.task, "unit", job.ticket)

\* job.fn() up to its first suspension.  A move calls transitionTaskAsync; if
\* that rejects at once (the call has set no timer) the unit's catch
\* reverts the card and the unit is over.  A create calls updateTask.
RunJob(s, job) ==
    IF job.kind = "move"
    THEN LET r == transitionTaskAsync(s, job.task, job.targetState, job.ticket)
         IN  IF r.timers = s.timers
             THEN Finally(revertCardVisuals([r EXCEPT !.lockErrors = @ + 1],
                                            job.taskId), job)
             ELSE r
    ELSE updateTask(s, job.task, "unit", job.ticket)

\* processNext without the isProcessing test
processNextNotBusy(s) ==
    IF Len(s.queue) = 0
    THEN s
    ELSE LET job == Head(s.queue)
         IN  RunJob([s EXCEPT !.isProcessing = TRUE,
                              !.queue = Tail(@),
                              !.running = Append(@, job),
                              !.executionOrder = Append(@, job.ticket)],
                    job)

processNext(s) ==
    IF s.isProcessing \/ Len(s.queue) = 0
    THEN s
    ELSE LET job == Head(s.queue)
         IN  RunJob([s EXCEPT !.isProcessing = TRUE,
                              !.queue = Tail(@),
                              !.running = Append(@, job),
                              !.executionOrder = Append(@, job.ticket)],
                    job)

\* enqueue(taskFn, description)
enqueue(s, job) == processNext([s EXCEPT !.queue = Append(@, job)])


\* ------------------------------------------------------------------- Init
\* The state once the DOMContentLoaded handler has returned: init() is
\* suspended in its load(), nothing is rendered yet.
Init ==
    /\ queue = <<>>
    /\ isProcessing = FALSE
    /\ running = <<>>
    /\ lockedTasks = {}
    /\ timers = <<>>
    /\ blob \in InitialBlobs
    /\ dbCalls = <<[op |-> "load", phase |-> "load", owner |-> "init", ticket |-> 0,
                    task |-> 0, data |-> <<>>, index |-> 0,
                    preTasks |-> Parse(blob), overlapped |-> FALSE]>>
    /\ heap = <<>>
    /\ allTasks = <<>>
    /\ cards = [id \in Ids |-> NoCard]
    /\ priorityFilter = "ALL"
    /\ renderTimers = 0
    /\ now = 2
    /\ nextTicket = 1
    /\ executionOrder = <<>>
    /\ directCalls = 0
    /\ lockErrors = 0
    /\ last = [op |-> "none"]

\* the job of running that has this ticket
JobOf(ticket) == running[CHOOSE i \in 1..Len(running) : running[i].ticket = ticket]

\* allTasks.findIndex(t => t.id === taskId), 0 for -1
IndexOfId(h, all, taskId) ==
    IF \E i \in 1..Len(all) : h[all[i]].id = taskId
    THEN CHOOSE i \in 1..Len(all) :
            /\ h[all[i]].id = taskId
            /\ \A j \in 1..(i-1) : h[all[j]].id # taskId
    ELSE 0

\* ---------------------------------------------------------- user actions
\* saveBtn.onclick: the new task is pushed, the board rendered and the
\* unit that persists it enqueued
CreateTask(priority) ==
    /\ now - 2 < MaxTasks
    /\ nextTicket <= MaxJobs
    /\ LET task == Len(heap) + 1
           h    == Append(heap, NewTask(now, priority))
           all  == Append(allTasks, task)
           c    == renderBoard(h, all, priorityFilter)
           job  == [kind |-> "create", task |-> task, taskId |-> now,
                    targetState |-> "DRAFT", previousState |-> "DRAFT",
                    ticket |-> nextTicket]
       IN  /\ allTasks' = all
           /\ cards' = c
           /\ SetMid(enqueue(Mid(h, blob, c), job))
    /\ now' = now + 1
    /\ nextTicket' = nextTicket + 1
    /\ last' = [op |-> "create"]
    /\ UNCHANGED <<blob, priorityFilter, directCalls>>

\* A click on an enabled button of the card of taskId: handleMove
handleMove(taskId, targetState) ==
    /\ cards[taskId].present
    /\ ~cards[taskId].disabled
    /\ targetState \in Range(cards[taskId].buttons)
    /\ nextTicket <= MaxJobs
    /\ IndexOfId(heap, allTasks, taskId) # 0
    /\ LET task == allTasks[IndexOfId(heap, allTasks, taskId)]
           c    == moveCardVisuals(cards, taskId)
           job  == [kind |-> "move", task |-> task, taskId |-> taskId,
                    targetState |-> targetState,
                    previousState |-> heap[task].state,
                    ticket |-> nextTicket]
       IN  /\ cards' = c
           /\ SetMid(enqueue(Mid(heap, blob, c), job))
    /\ nextTicket' = nextTicket + 1
    /\ last' = [op |-> "click"]
    /\ UNCHANGED <<blob, allTasks, priorityFilter, now, directCalls>>

\* the change listener of the priority filter
PriorityChange(p) ==
    /\ p # priorityFilter
    /\ priorityFilter' = p
    /\ cards' = renderBoard(heap, allTasks, p)
    /\ last' = [op |-> "none"]
    /\ UNCHANGED <<queue, isProcessing, running, lockedTasks, timers, blob,
                   dbCalls, heap, allTasks, renderTimers, now,
                   nextTicket, executionOrder, directCalls, lockErrors>>

\* the timeout of revertCardVisuals fires: renderBoard
RenderTimerFire ==
    /\ renderTimers > 0
    /\ renderTimers' = renderTimers - 1
    /\ cards' = renderBoard(heap, allTasks, priorityFilter)
    /\ last' = [op |-> "none"]
    /\ UNCHANGED <<queue, isProcessing, running, lockedTasks, timers, blob,
                   dbCalls, heap, allTasks, priorityFilter, now,
                   nextTicket, executionOrder, directCalls, lockErrors>>


\* -------------------------------------------------------- timer callbacks
\* the rejection of a unit ending the processing loop: no finally block
UnitFailedStops(s, job) ==
    IF job.kind = "move"
    THEN revertCardVisuals(s, job.taskId)
    ELSE s

\* The unit of a job goes on after the promise it awaited has rejected: the
\* catch of a move reverts the card; a create has no catch, processNext logs
\* the rejection.  Either way the unit is over.
UnitFailed(s, job) ==
    IF job.kind = "move"
    THEN Finally(revertCardVisuals(s, job.taskId), job)
    ELSE Finally(s, job)

\* the callback without the lockedTasks.delete of the failure branch
transitionCallbackLeak(s, i, shouldFail) ==
    LET t == s.timers[i]
    IN  [s EXCEPT !.heap = IF shouldFail THEN @
                            ELSE [@ EXCEPT ![t.task] = Moved(@, t.targetState)],
                  !.lockedTasks = IF shouldFail THEN @ ELSE @ \ {s.heap[t.task].id},
                  !.timers = RemoveAt(@, i)]

\* the callback with task.state assigned before shouldFail is tested
transitionCallbackPartial(s, i, shouldFail) ==
    LET t == s.timers[i]
    IN  [s EXCEPT !.heap = IF shouldFail
                            THEN [@ EXCEPT ![t.task].state = t.targetState]
                            ELSE [@ EXCEPT ![t.task] = Moved(@, t.targetState)],
                  !.lockedTasks = @ \ {s.heap[t.task].id},
                  !.timers = RemoveAt(@, i)]

\* the callback with the history record pushed before shouldFail is tested
transitionCallbackEarlyHistory(s, i, shouldFail) ==
    LET t == s.timers[i]
    IN  [s EXCEPT !.heap = IF shouldFail
                            THEN [@ EXCEPT ![t.task].history =
                                        Append(@, MovedTo(t.targetState))]
                            ELSE [@ EXCEPT ![t.task] = Moved(@, t.targetState)],
                  !.lockedTasks = @ \ {s.heap[t.task].id},
                  !.timers = RemoveAt(@, i)]

\* The setTimeout callback of transitionTaskAsync for timers[i], up to the
\* reject or resolve: shouldFail is Math.random() < 0.15.
transitionCallback(s, i, shouldFail) ==
    LET t == s.timers[i]
    IN  [s EXCEPT !.heap = IF shouldFail THEN @
                            ELSE [@ EXCEPT ![t.task] = Moved(@, t.targetState)],
                  !.lockedTasks = @ \ {s.heap[t.task].id},
                  !.timers = RemoveAt(@, i)]

\* timers[i] fires.  A direct caller's promise settles and that is all; the
\* unit of a move goes on: to its catch, or to updateTask(updatedTask).
TransitionTimerFire(i, shouldFail) ==
    /\ i \in 1..Len(timers)
    /\ LET t == timers[i]
           s == transitionCallback(Mid(heap, blob, cards), i, shouldFail)
       IN  /\ SetMid(IF t.caller = 0 THEN s
                     ELSE IF shouldFail THEN UnitFailed(s, JobOf(t.caller))
                     ELSE updateTask(s, t.task, "unit", t.caller))
           /\ last' = [op |-> "attempt", task |-> t.task,
                       targetState |-> t.targetState,
                       outcome |-> IF shouldFail THEN "failed" ELSE "ok",
                       pre |-> t.pre, from |-> heap[t.task].state,
                       caller |-> t.caller, index |-> i,
                       retryOf |-> t.retryOf]
    /\ UNCHANGED <<blob, allTasks, cards, priorityFilter, now,
                   nextTicket, directCalls>>

\* The _delay of load() is over for dbCalls[i]; ok is whether getItem and
\* JSON.parse return.  init goes on to render the board; updateTask finds the
\* index, puts the task in and calls save(), which suspends in its own _delay.
LoadTimerFire(i, ok) ==
    /\ i \in 1..Len(dbCalls)
    /\ dbCalls[i].phase = "load"
    /\ LET c    == dbCalls[i]
           data == Parse(blob)
           rest == [Mid(heap, blob, cards) EXCEPT !.dbCalls = RemoveAt(@, i)]
       IN  IF c.owner = "init"
           THEN /\ IF ok
                   THEN LET h   == heap \o data
                            all == [k \in 1..Len(data) |-> Len(heap) + k]
                        IN  /\ allTasks' = all
                            /\ cards' = renderBoard(h, all, priorityFilter)
                            /\ SetMid([rest EXCEPT !.heap = h])
                   ELSE /\ UNCHANGED <<allTasks, cards>>
                        /\ SetMid(rest)
                /\ last' = [op |-> "init", ok |-> ok]
           ELSE /\ SetMid(IF ok
                          THEN [Mid(heap, blob, cards) EXCEPT !.dbCalls[i] =
                                  [@ EXCEPT !.phase = "save", !.data = data,
                                            !.index = FindIndex(data, heap[c.task].id)]]
                          ELSE IF c.owner = "unit"
                               THEN UnitFailed(rest, JobOf(c.ticket))
                               ELSE rest)
                /\ last' = IF ok THEN [op |-> "none"]
                           ELSE [op |-> "updateTask", outcome |-> "readFailed",
                                 task |-> c.task, owner |-> c.owner,
                                 preTasks |-> c.preTasks,
                                 overlapped |-> c.overlapped,
                                 kind |-> IF c.owner = "unit"
                                          THEN JobOf(c.ticket).kind ELSE "direct",
                                 before |-> data, data |-> <<>>]
                /\ UNCHANGED <<allTasks, cards>>
    /\ UNCHANGED <<blob, priorityFilter, now, nextTicket,
                   directCalls>>

\* allTasks[allTasks.findIndex(t => t.id === taskId)] = updatedTask, which
\* the unit of a move does once updateTask has returned
PutBack(h, all, job) ==
    IF IndexOfId(h, all, job.taskId) # 0
    THEN [all EXCEPT ![IndexOfId(h, all, job.taskId)] = job.task]
    ELSE all

\* The _delay of save() is over for dbCalls[i]; ok is whether setItem
\* returns (it throws when the quota is exceeded).
SaveTimerFire(i, ok) ==
    /\ i \in 1..Len(dbCalls)
    /\ dbCalls[i].phase = "save"
    /\ LET c    == dbCalls[i]
           b    == IF ok THEN Stringify(c.data, c.index, heap[c.task]) ELSE blob
           isMove == c.owner = "unit" /\ JobOf(c.ticket).kind = "move"
           all  == IF ok /\ isMove
                   THEN PutBack(heap, allTasks, JobOf(c.ticket))
                   ELSE allTasks
           cds  == IF ok /\ isMove
                   THEN renderBoard(heap, all, priorityFilter)
                   ELSE cards
           rest == [Mid(heap, b, cds) EXCEPT !.dbCalls = RemoveAt(@, i)]
       IN  /\ blob' = b
           /\ allTasks' = all
           /\ cards' = cds
           /\ SetMid(IF c.owner # "unit" THEN rest
                     ELSE IF ok THEN Finally(rest, JobOf(c.ticket))
                     ELSE UnitFailed(rest, JobOf(c.ticket)))
           /\ last' = [op |-> "updateTask",
                       outcome |-> IF ok THEN "ok" ELSE "writeFailed",
                       task |-> c.task, owner |-> c.owner,
                       preTasks |-> c.preTasks, overlapped |-> c.overlapped,
                       kind |-> IF c.owner = "unit"
                                THEN JobOf(c.ticket).kind ELSE "direct",
                       before |-> Parse(blob), data |-> c.data]
    /\ UNCHANGED <<priorityFilter, now, nextTicket, directCalls>>


\* ----------------------------------------------------------- direct calls
\* window.WorkflowEngine and window.AppStorage are globals: any script can
\* call them without going through the queue.

\* WorkflowEngine.transitionTaskAsync(task, targetState) called directly.
\* The promise is rejected at once when the call has set no timer.
DirectAttempt(task, targetState) ==
    /\ task \in DOMAIN heap
    /\ LET s == Mid(heap, blob, cards)
           r == transitionTaskAsync(s, task, targetState, 0)
       IN  /\ SetMid(r)
           /\ last' = [op |-> "directAttempt", task |-> task,
                       targetState |-> targetState,
                       wasLocked |-> heap[task].id \in lockedTasks,
                       rejected |-> r.timers = timers, pre |-> heap[task]]
    /\ directCalls' = directCalls + 1
    /\ UNCHANGED <<blob, allTasks, cards, priorityFilter, now, nextTicket>>

\* AppStorage.updateTask(task) called directly
DirectUpdate(task) ==
    /\ task \in DOMAIN heap
    /\ SetMid(updateTask(Mid(heap, blob, cards), task, "direct", 0))
    /\ directCalls' = directCalls + 1
    /\ last' = [op |-> "call"]
    /\ UNCHANGED <<blob, allTasks, cards, priorityFilter, now, nextTicket>>

\* WorkflowEngine.getNextStates(currentState) called directly
DirectGetNextStates(currentState) ==
    /\ last' = [op |-> "getNextStates", currentState |-> currentState,
                result |-> getNextStates(currentState)]
    /\ UNCHANGED <<queue, isProcessing, running, lockedTasks, timers, blob,
                   dbCalls, heap, allTasks, cards, priorityFilter, renderTimers,
                   now, nextTicket, executionOrder, directCalls, lockErrors>>

\* ------------------------------------------------------- specifications
\* the shipped page: the user and the timers
Next ==
    \/ \E p \in Priorities : CreateTask(p)
    \/ \E id \in Ids, t \in States : handleMove(id, t)
    \/ \E p \in Priorities \cup {"ALL"} : PriorityChange(p)
    \/ RenderTimerFire
    \/ \E i \in 1..Len(timers), f \in BOOLEAN : TransitionTimerFire(i, f)
    \/ \E i \in 1..Len(dbCalls), ok \in BOOLEAN : LoadTimerFire(i, ok)
    \/ \E i \in 1..Len(dbCalls), ok \in BOOLEAN : SaveTimerFire(i, ok)

Spec == Init /\ [][Next]_vars

\* The page with the tasks it has loaded, worked by the user's clicks, while
\* scripts call the engine and the store directly.
NextOpen ==
    \/ \E id \in Ids, t \in States :
            nextTicket <= MaxOpenJobs /\ handleMove(id, t)
    \/ RenderTimerFire
    \/ \E i \in 1..Len(timers), f \in BOOLEAN : TransitionTimerFire(i, f)
    \/ \E i \in 1..Len(dbCalls), ok \in BOOLEAN : LoadTimerFire(i, ok)
    \/ \E i \in 1..Len(dbCalls), ok \in BOOLEAN : SaveTimerFire(i, ok)
    \/ \E task \in DOMAIN heap, t \in States :
            directCalls < MaxDirect /\ DirectAttempt(task, t)
    \/ \E task \in DOMAIN heap :
            directCalls < MaxDirect /\ DirectUpdate(task)

SpecOpen == Init /\ [][NextOpen]_vars

\* Tasks are created through the page; scripts move and persist them by direct
\* calls, so that store calls overlap.
NextStore ==
    \/ \E p \in Priorities : CreateTask(p)
    \/ \E i \in 1..Len(timers), f \in BOOLEAN : TransitionTimerFire(i, f)
    \/ \E i \in 1..Len(dbCalls), ok \in BOOLEAN : LoadTimerFire(i, ok)
    \/ \E i \in 1..Len(dbCalls), ok \in BOOLEAN : SaveTimerFire(i, ok)
    \/ \E task \in DOMAIN heap, t \in States :
            directCalls < MaxStoreDirect /\ DirectAttempt(task, t)
    \/ \E task \in DOMAIN heap :
            directCalls < MaxStoreDirect /\ DirectUpdate(task)

SpecStore == Init /\ [][NextStore]_vars

\* The engine alone, called directly.
NextEngine ==
    \/ \E i \in 1..Len(timers), f \in BOOLEAN : TransitionTimerFire(i, f)
    \/ \E i \in 1..Len(dbCalls), ok \in BOOLEAN : LoadTimerFire(i, ok)
    \/ \E task \in DOMAIN heap, t \in States :
            directCalls < MaxDirect /\ DirectAttempt(task, t)
    \/ \E st \in States \cup UnknownStates : DirectGetNextStates(st)

SpecEngine == Init /\ [][NextEngine]_vars

\* The page has loaded a blob of two tasks and is left alone, while scripts
\* call the engine and the store directly on both tasks.
InitRace ==
    /\ queue = <<>>
    /\ isProcessing = FALSE
    /\ running = <<>>
    /\ lockedTasks = {}
    /\ timers = <<>>
    /\ blob = [present |-> TRUE, tasks |-> <<StoredTask1, StoredTask2>>]
    /\ dbCalls = <<[op |-> "load", phase |-> "load", owner |-> "init", ticket |-> 0,
                    task |-> 0, data |-> <<>>, index |-> 0,
                    preTasks |-> Parse(blob), overlapped |-> FALSE]>>
    /\ heap = <<>>
    /\ allTasks = <<>>
    /\ cards = [id \in Ids |-> NoCard]
    /\ priorityFilter = "ALL"
    /\ renderTimers = 0
    /\ now = 3
    /\ nextTicket = 1
    /\ executionOrder = <<>>
    /\ directCalls = 0
    /\ lockErrors = 0
    /\ last = [op |-> "none"]

NextRace ==
    \/ \E i \in 1..Len(timers), f \in BOOLEAN : TransitionTimerFire(i, f)
    \/ \E i \in 1..Len(dbCalls), ok \in BOOLEAN : LoadTimerFire(i, ok)
    \/ \E i \in 1..Len(dbCalls), ok \in BOOLEAN : SaveTimerFire(i, ok)
    \/ \E task \in DOMAIN heap, t \in States :
            directCalls < MaxRaceDirect /\ DirectAttempt(task, t)
    \/ \E task \in DOMAIN heap :
            directCalls < MaxRaceDirect /\ DirectUpdate(task)

SpecRace == InitRace /\ [][NextRace]_vars

\* The shipped page again, with the guarantee of the event loop that a timer
\* that is due fires: every setTimeout callback is eventually run.
NextLive ==
    \/ \E p \in Priorities : nextTicket <= MaxLiveJobs /\ CreateTask(p)
    \/ \E id \in Ids, t \in States :
            nextTicket <= MaxLiveJobs /\ handleMove(id, t)
    \/ RenderTimerFire
    \/ \E i \in 1..Len(timers), f \in BOOLEAN : TransitionTimerFire(i, f)
    \/ \E i \in 1..Len(dbCalls), ok \in BOOLEAN : LoadTimerFire(i, ok)
    \/ \E i \in 1..Len(dbCalls), ok \in BOOLEAN : SaveTimerFire(i, ok)

SpecLive ==
    /\ Init
    /\ [][NextLive]_vars
    /\ WF_vars(RenderTimerFire)
    /\ WF_vars(\E i \in 1..Len(timers), f \in BOOLEAN : TransitionTimerFire(i, f))
    /\ WF_vars(\E i \in 1..Len(dbCalls), ok \in BOOLEAN : LoadTimerFire(i, ok))
    /\ WF_vars(\E i \in 1..Len(dbCalls), ok \in BOOLEAN : SaveTimerFire(i, ok))

\* ------------------------------------------------------------------ claims

\* C1: the units are started in the order they were enqueued (the k-th unit
\* started is the k-th enqueued, and the jobs still waiting are the next ones
\* in order) and never overlap (at most one started unit has not settled).
C1_FifoNoOverlap ==
    /\ Len(running) <= 1
    /\ \A k \in 1..Len(executionOrder) : executionOrder[k] = k
    /\ \A k \in 1..Len(queue) : queue[k].ticket = Len(executionOrder) + k
    /\ Len(executionOrder) + Len(queue) = nextTicket - 1

\* two units have settled, the third runs and a fourth, enqueued in the
\* meantime, waits
C1_Witness ==
    /\ executionOrder = <<1, 2, 3>>
    /\ Len(running) = 1
    /\ running[1].ticket = 3
    /\ Len(queue) = 1


\* the ids of the attempts that wait for their timer
InFlightIds == {heap[timers[i].task].id : i \in DOMAIN timers}

\* C2: no two transition attempts on the same task id are in flight at the same
\* time, whoever the callers are (units of the queue or direct callers).
C2_OneAttemptPerId ==
    \A i, j \in DOMAIN timers :
        i # j => heap[timers[i].task].id # heap[timers[j].task].id

\* a unit of the queue holds the lock of a task and a direct call on the same
\* task has just been turned away
C2_Witness ==
    /\ last.op = "directAttempt"
    /\ last.rejected
    /\ Len(timers) = 1
    /\ timers[1].caller # 0
    /\ heap[timers[1].task].id = heap[last.task].id

\* C3: a call of transitionTaskAsync on a task whose id is in the lock set is
\* rejected at once: it sets no timer, takes no lock and leaves the task as it
\* was, whatever the target.
C3_LockedRejected ==
    (last.op = "directAttempt" /\ last.wasLocked) =>
        /\ last.rejected
        /\ heap[last.task] = last.pre
        /\ Cardinality({i \in DOMAIN timers :
                            heap[timers[i].task].id = last.pre.id}) = 1

\* a call with a target that is no next state of the task is turned away
\* because the task is locked
C3_Witness ==
    /\ last.op = "directAttempt"
    /\ last.wasLocked
    /\ last.rejected
    /\ ~canTransition(last.pre.state, last.targetState)

\* C4: a lock is never leaked: the lock set holds exactly the ids of the
\* attempts still waiting for their timer, and once an attempt has finished
\* (success or simulated failure) its id is locked only if a later unit of the
\* queue has locked it again in the meantime.
C4_NoLeakedLock ==
    /\ lockedTasks = InFlightIds
    /\ last.op = "attempt" =>
          \/ heap[last.task].id \notin lockedTasks
          \/ /\ last.caller # 0
             /\ \E i \in DOMAIN timers :
                    /\ heap[timers[i].task].id = heap[last.task].id
                    /\ timers[i].caller > last.caller

\* an attempt has just failed and nothing is locked
C4_Witness ==
    /\ last.op = "attempt"
    /\ last.outcome = "failed"
    /\ lockedTasks = {}

\* C5: when an attempt fails (locked, or the simulated fault) the task is what
\* it was when the call was made: same state, same history.
C5_FailureLeavesTask ==
    /\ (last.op = "attempt" /\ last.outcome = "failed") =>
            heap[last.task] = last.pre
    /\ (last.op = "directAttempt" /\ last.rejected) =>
            heap[last.task] = last.pre

\* an attempt on a task with a history has just failed
C5_Witness ==
    /\ last.op = "attempt"
    /\ last.outcome = "failed"
    /\ Len(last.pre.history) >= 2
    /\ last.targetState # last.pre.state

IsPrefix(a, b) == Len(a) <= Len(b) /\ SubSeq(b, 1, Len(a)) = a

\* C6: when an attempt succeeds the task's state is the target and its history
\* is the history at the call with one record, MOVED_TO_target, at the end;
\* and no step ever changes or removes a history record (append-only).
C6_SuccessAppendsOne ==
    /\ [](last.op = "attempt" /\ last.outcome = "ok" =>
            /\ heap[last.task].state = last.targetState
            /\ heap[last.task].history =
                    Append(last.pre.history, "MOVED_TO_" \o last.targetState)
            /\ heap[last.task].id = last.pre.id
            /\ heap[last.task].priority = last.pre.priority)
    /\ [][\A r \in DOMAIN heap :
            /\ r \in DOMAIN heap'
            /\ IsPrefix(heap[r].history, heap'[r].history)
            /\ Len(heap'[r].history) <= Len(heap[r].history) + 1]_vars

\* the stored task has been moved to APPROVED: a third record at the end
C6_Witness ==
    /\ last.op = "attempt"
    /\ last.outcome = "ok"
    /\ last.targetState = "APPROVED"
    /\ heap[last.task].history =
          <<"MOVED_TO_SUBMITTED", "MOVED_TO_IN_REVIEW", "MOVED_TO_APPROVED">>


\* C7: the state of every task, in memory and persisted, is a key of the
\* transition table, and a task in COMPLETED is never given another state.
C7_TableStatesCompletedFinal ==
    /\ \A r \in DOMAIN heap : heap[r].state \in DOMAIN STATE_RULES
    /\ \A k \in DOMAIN blob.tasks : blob.tasks[k].state \in DOMAIN STATE_RULES
    /\ (last.op = "attempt" /\ last.from = "COMPLETED") =>
            heap[last.task].state = "COMPLETED"

\* C8: with the page as the only caller (every move is a click on a button
\* that createTaskElement made from getNextStates), every state change the
\* engine applies goes along an edge of the table from the state the task has
\* at that moment.
C8_ClicksFollowTable ==
    (last.op = "attempt" /\ last.outcome = "ok") =>
        canTransition(last.from, last.targetState)

\* the entry of the transition table for s, as the specification lists it
TableEntry(s) ==
    CASE s = "DRAFT"     -> <<"SUBMITTED">>
      [] s = "SUBMITTED" -> <<"IN_REVIEW">>
      [] s = "IN_REVIEW" -> <<"APPROVED", "REJECTED">>
      [] s = "APPROVED"  -> <<"COMPLETED">>
      [] s = "REJECTED"  -> <<"DRAFT">>
      [] OTHER           -> <<>>

UpdatedList(pre, obj, now_) ==
    IF \E k \in DOMAIN pre : pre[k].id = obj.id
    THEN /\ Len(now_) = Len(pre)
         /\ \A k \in DOMAIN pre :
                now_[k] = IF pre[k].id = obj.id THEN obj ELSE pre[k]
    ELSE /\ Len(now_) = Len(pre) + 1
         /\ now_[Len(now_)] = obj
         /\ \A k \in DOMAIN pre : now_[k] = pre[k]

\* C10: an updateTask call that returns and did not overlap another store call
\* leaves the persisted list as it was when the call was made, except that the
\* task replaces the entry with its id (same length) or, when there is none,
\* is appended (one longer).  A call that fails leaves the blob as it was.
C10_UpdateTask ==
    (last.op = "updateTask" /\ ~last.overlapped) =>
        IF last.outcome = "ok"
        THEN blob.present /\ UpdatedList(last.preTasks, heap[last.task], blob.tasks)
        ELSE Parse(blob) = last.preTasks

\* of two persisted tasks the first has been replaced by a changed value
C10_Witness ==
    /\ last.op = "updateTask"
    /\ last.outcome = "ok"
    /\ ~last.overlapped
    /\ Len(last.preTasks) = 2
    /\ last.preTasks[1].id = heap[last.task].id
    /\ last.preTasks[1] # heap[last.task]
    /\ blob.tasks[1] = heap[last.task]

\* C11: with the page as the only caller (creations and moves go through the
\* queue) the load-modify-save sequences of two units never interleave: at
\* most one updateTask call is in flight, and the list it loaded is still the
\* persisted list when it saves.  So no persisted entry is ever dropped, and
\* an entry changes only by a successful write of the task with that id.
C11_QueueSerializesStore ==
    /\ [](/\ Cardinality({i \in DOMAIN dbCalls : dbCalls[i].op = "updateTask"}) <= 1
          /\ \A i \in DOMAIN dbCalls :
                dbCalls[i].phase = "save" => dbCalls[i].data = Parse(blob))
    /\ [][\A k \in DOMAIN blob.tasks :
            \E j \in DOMAIN blob'.tasks :
                /\ blob'.tasks[j].id = blob.tasks[k].id
                /\ blob'.tasks[j] # blob.tasks[k] =>
                        /\ last'.op = "updateTask"
                        /\ last'.outcome = "ok"
                        /\ heap'[last'.task].id = blob.tasks[k].id
                        /\ blob'.tasks[j] = heap'[last'.task]]_vars

\* the unit of a move has persisted its task while the blob holds a second
\* task, created in this session and persisted by its own unit: the entry of
\* the moved task has changed, the other one is as it was
C11_Witness ==
    /\ last.op = "updateTask"
    /\ last.outcome = "ok"
    /\ last.kind = "move"
    /\ Len(last.before) = 2
    /\ Len(blob.tasks) = 2
    /\ \E k \in 1..2 :
            /\ blob.tasks[k].id = heap[last.task].id
            /\ blob.tasks[k] # last.before[k]
            /\ blob.tasks[3 - k] = last.before[3 - k]
            /\ blob.tasks[3 - k].id = 2

\* C12: with the page as the only caller (every transition is the unit of a
\* handleMove in the queue) no call of transitionTaskAsync is ever rejected as
\* locked.
C12_LockNeverFires == lockErrors = 0

\* The attempt of a move is in flight for a task that has changed state since
\* the button was clicked: the move was enqueued while an earlier move of the
\* same task had not finished, and was started without a rejection.
C12_Witness ==
    /\ lockErrors = 0
    /\ Len(timers) = 1
    /\ timers[1].caller >= 2
    /\ JobOf(timers[1].caller).previousState # timers[1].pre.state
    /\ heap[timers[1].task].id \in lockedTasks

\* the macrotask recorded in l ended a unit of the queue in failure: the
\* simulated fault of its attempt, or a read or write fault of its store call
UnitJustFailed(l) ==
    \/ l.op = "attempt" /\ l.caller # 0 /\ l.outcome = "failed"
    \/ l.op = "updateTask" /\ l.owner = "unit" /\ l.outcome # "ok"

\* C13: a unit that fails does not stop the processing loop: in the step in
\* which it fails the queue starts the next waiting job, or is idle when none
\* waits.  With timers that fire, every job enqueued is eventually started and
\* settled, and a backlog eventually becomes empty.
C13_FailureDoesNotStopQueue ==
    /\ [][UnitJustFailed(last') =>
            /\ Len(running') <= 1
            /\ queue # <<>> =>
                    /\ isProcessing'
                    /\ executionOrder' = Append(executionOrder, Head(queue).ticket)
                    /\ queue' = Tail(queue)
            /\ queue = <<>> => ~isProcessing' /\ running' = <<>>]_vars
    /\ \A k \in 1..MaxLiveJobs :
            (nextTicket > k) ~>
                /\ k \in Range(executionOrder)
                /\ \A i \in DOMAIN running : running[i].ticket # k
    /\ (queue # <<>>) ~> (queue = <<>> /\ ~isProcessing)

\* the attempt of the first unit has failed and the unit enqueued behind it
\* has been started, with a third one still waiting
C13_Witness ==
    /\ UnitJustFailed(last)
    /\ last.op = "attempt"
    /\ last.caller = 1
    /\ executionOrder = <<1, 2>>
    /\ isProcessing
    /\ Len(queue) = 1

\* C14: the engine does not consult the transition table.  A call on a task
\* that is not locked is accepted whatever the target (it takes the lock and
\* sets its timer); an attempt that succeeds sets the state to the target,
\* legal or not; and every pending attempt can both fail and succeed.
C14_EngineDoesNotValidate ==
    /\ (last.op = "directAttempt" /\ ~last.wasLocked) =>
            /\ ~last.rejected
            /\ last.pre.id \in lockedTasks
            /\ \E i \in DOMAIN timers :
                    /\ timers[i].task = last.task
                    /\ timers[i].targetState = last.targetState
    /\ (last.op = "attempt" /\ last.outcome = "ok") =>
            heap[last.task].state = last.targetState
    /\ \A i \in DOMAIN timers :
            /\ ENABLED TransitionTimerFire(i, TRUE)
            /\ ENABLED TransitionTimerFire(i, FALSE)

\* a direct attempt with a target that is no next state of the task's state
\* has succeeded: the task has that state
C14_Witness ==
    /\ last.op = "attempt"
    /\ last.outcome = "ok"
    /\ last.caller = 0
    /\ ~canTransition(last.from, last.targetState)
    /\ last.from = "IN_REVIEW"
    /\ heap[last.task].state = "COMPLETED"

\* C15: the store does not guard updateTask: a call that returns has written
\* the list it loaded with its own task put in, so the entry of every other
\* task is the one it loaded, whatever has been saved since (last write wins).
C15_LastWriteWins ==
    (last.op = "updateTask" /\ last.outcome = "ok") =>
        /\ Len(blob.tasks) >= Len(last.data)
        /\ \A k \in DOMAIN last.data :
                last.data[k].id # heap[last.task].id => blob.tasks[k] = last.data[k]

\* Two direct updateTask calls on different tasks have overlapped: this one
\* loaded the list persisted when it was called, the other saved its changed
\* task first, and this save has put the old entry of that task back, so the
\* persisted entry no longer is the task the other call wrote.
C15_Witness ==
    /\ last.op = "updateTask"
    /\ last.outcome = "ok"
    /\ last.owner = "direct"
    /\ last.overlapped
    /\ last.data = last.preTasks
    /\ \E k \in DOMAIN last.before :
            /\ last.before[k].id # heap[last.task].id
            /\ last.before[k] # last.preTasks[k]
            /\ blob.tasks[k] = last.preTasks[k]
            /\ \E r \in DOMAIN heap :
                    /\ heap[r] = last.before[k]
                    /\ heap[r] # blob.tasks[k]

\* C16: an attempt in flight on one task does not block the others.  A call
\* on a task whose id is not locked is accepted and takes the lock while other
\* ids are locked; every pending attempt can be the next to complete; and
\* when one completes, the others stay pending and locked, their tasks as
\* they were.
C16_OtherTasksNotBlocked ==
    /\ []((last.op = "directAttempt" /\ ~last.wasLocked) =>
            /\ ~last.rejected
            /\ last.pre.id \in lockedTasks
            /\ lockedTasks = InFlightIds)
    /\ [](\A i \in DOMAIN timers :
            /\ ENABLED TransitionTimerFire(i, TRUE)
            /\ ENABLED TransitionTimerFire(i, FALSE))
    /\ [][last'.op = "attempt" =>
            \A j \in DOMAIN timers :
                heap[timers[j].task].id # heap[last'.task].id =>
                    /\ timers[j] \in Range(timers')
                    /\ heap[timers[j].task].id \in lockedTasks'
                    /\ heap'[timers[j].task] = heap[timers[j].task]]_vars

\* Of two attempts in flight on different tasks the one started second has
\* succeeded first; the one started first is still pending and locked.
C16_Witness ==
    /\ last.op = "attempt"
    /\ last.outcome = "ok"
    /\ last.index = 2
    /\ Len(timers) = 1
    /\ heap[timers[1].task].id # heap[last.task].id
    /\ lockedTasks = {heap[timers[1].task].id}

\* C17: the simulated fault is transient.  A call on the same task made right
\* after its attempt has failed is not rejected and finds the task as it was
\* before the failed attempt; when that retry succeeds the state is its target
\* and the history is the history before the failed attempt with one record,
\* MOVED_TO_target, at the end.
C17_FailureIsRetryable ==
    /\ [][(/\ last.op = "attempt"
           /\ last.outcome = "failed"
           /\ last'.op = "directAttempt"
           /\ last'.task = last.task) =>
                /\ ~last'.wasLocked
                /\ ~last'.rejected
                /\ last'.pre = last.pre]_vars
    /\ []((last.op = "attempt" /\ last.outcome = "ok" /\ last.retryOf # <<>>) =>
            /\ heap[last.task].state = last.targetState
            /\ Len(heap[last.task].history) = Len(last.retryOf[1].pre.history) + 1
            /\ heap[last.task].history =
                    Append(last.retryOf[1].pre.history, MovedTo(last.targetState)))

\* the task in DRAFT with an empty history: the attempt to move it to
\* SUBMITTED has failed, the retry has succeeded; state SUBMITTED, history
\* of length 1
C17_Witness ==
    /\ last.op = "attempt"
    /\ last.outcome = "ok"
    /\ last.retryOf # <<>>
    /\ last.retryOf[1].pre.state = "DRAFT"
    /\ last.retryOf[1].pre.history = <<>>
    /\ last.retryOf[1].targetState = "SUBMITTED"
    /\ last.targetState = "SUBMITTED"
    /\ heap[last.task].state = "SUBMITTED"
    /\ heap[last.task].history = <<"MOVED_TO_SUBMITTED">>
    /\ lockedTasks = {}

\* C18: no lost wake-up.  Whenever control is back in the event loop, a
\* non-empty backlog implies that a unit is executing: isProcessing is set
\* and exactly one started unit has not settled.
C18_NoLostWakeup ==
    /\ queue # <<>> => isProcessing
    /\ isProcessing <=> Len(running) = 1
    /\ ~isProcessing => running = <<>>

\* the store write of a unit has failed while two jobs were waiting: the
\* first of them has been started, the other still waits
C18_Witness ==
    /\ last.op = "updateTask"
    /\ last.owner = "unit"
    /\ last.outcome = "writeFailed"
    /\ Len(queue) = 1
    /\ isProcessing
    /\ Len(executionOrder) >= 2

\* C19: when the unit of a handleMove has finished (its store call has
\* returned or failed, or its attempt has failed), the state of the task in
\* memory is the state of the persisted entry with its id; on the failure
\* paths the persisted list is the one the unit found.
C19_MemoryMatchesStore ==
    /\ (last.op = "updateTask" /\ last.kind = "move") =>
            /\ \A k \in DOMAIN blob.tasks :
                    blob.tasks[k].id = heap[last.task].id =>
                        blob.tasks[k].state = heap[last.task].state
            /\ last.outcome # "ok" => Parse(blob) = last.preTasks
    /\ (last.op = "attempt" /\ last.caller # 0 /\ last.outcome = "failed") =>
            \A k \in DOMAIN blob.tasks :
                blob.tasks[k].id = heap[last.task].id =>
                    blob.tasks[k].state = heap[last.task].state

\* C20: the persisted list never holds two entries with the same id, and
\* neither does a list that a store call is about to save, however the
\* updateTask calls overlap.
C20_NoDuplicateIds ==
    /\ \A j, k \in DOMAIN blob.tasks :
            j # k => blob.tasks[j].id # blob.tasks[k].id
    /\ \A i \in DOMAIN dbCalls :
            dbCalls[i].phase = "save" =>
                \A j, k \in DOMAIN dbCalls[i].data :
                    j # k => dbCalls[i].data[j].id # dbCalls[i].data[k].id

\* Two updateTask calls on the same new id have overlapped: the list this
\* one loaded had no entry with the id, another call has appended one in the
\* meantime, and this call's save has left exactly one.
C20_Witness ==
    /\ last.op = "updateTask"
    /\ last.outcome = "ok"
    /\ last.overlapped
    /\ \A k \in DOMAIN last.data : last.data[k].id # heap[last.task].id
    /\ \E k \in DOMAIN last.before : last.before[k].id = heap[last.task].id
    /\ Cardinality({k \in DOMAIN blob.tasks :
                        blob.tasks[k].id = heap[last.task].id}) = 1
    /\ Len(blob.tasks) = 2

====
